---- MODULE Spec2Model ----
(***************************************************************************)
(* The arrival polling-and-normalization pipeline of stib.py: one script   *)
(* run ("tick") per action.  Streamlit re-runs the whole script on every   *)
(* timer event of st_autorefresh and on every widget interaction; the      *)
(* session state survives between runs.  Time is counted in whole seconds. *)
(***************************************************************************)
EXTENDS Integers, Sequences, FiniteSets, TLC

(* ------------------------------- bounds -------------------------------- *)

\* Number of script runs explored.
MaxTicks == 3

(* ------------------------- program constants --------------------------- *)

REFRESH_SECONDS == 30
\* TABLE_REFRESH_INTERVAL = 1000 ms, in seconds
TABLE_REFRESH_SECONDS == 1
\* last_fetch_time = None
NoTime == -1

\* Seconds between two script runs: the 1 s timer of st_autorefresh, or a
\* longer pause (a hidden tab, a slow run) of exactly the refresh interval
\* or one second more.
TickSteps == {TABLE_REFRESH_SECONDS, REFRESH_SECONDS, REFRESH_SECONDS + 1}

(* ------------------------------ catalog -------------------------------- *)

\* stop_dict: stop name -> point identifiers
stop_dict == [name \in {"FLAGEY", "LEVURE"} |->
                IF name = "FLAGEY" THEN {"1001"} ELSE {"2001"}]

StopNames == DOMAIN stop_dict

PointIds == UNION {stop_dict[n] : n \in StopNames}

\* Values the "Choose stops" multiselect can hold.
StopSelections == {{}, {"FLAGEY"}, {"FLAGEY", "LEVURE"}}

\* Values of the "next X minutes" slider explored (1..30 in the program).
TimeLimits == {1, 5}

(* --------------------------- upstream payload -------------------------- *)

\* One passing-time entry: expectedArrivalTime is an ISO-8601 text that
\* parses to the instant t, or a text isoparse rejects.
Entry(t) == [expectedArrivalTime |-> [iso |-> TRUE, t |-> t], destination |-> "ROGIER"]

BadEntry == [expectedArrivalTime |-> [iso |-> FALSE, t |-> 0], destination |-> "ROGIER"]

\* The passingtimes field: a text holding a JSON array, or the text "not json".
JsonText(entries) == [json |-> TRUE, val |-> entries]

NotJson == [json |-> FALSE, val |-> <<>>]

\* A record of the API's schema: pointid, lineid and the passingtimes text,
\* which decodes to an array of entries or does not decode.
RawRecord(p, l, pt) == [pointid |-> p, lineid |-> l, passingtimes |-> pt]

\* The records the upstream API is taken to serve.
rF7 == RawRecord("1001", "7", JsonText(<<Entry(61), Entry(31)>>))

rF81 == RawRecord("1001", "81", JsonText(<<BadEntry, Entry(35)>>))

rL81 == RawRecord("2001", "81", JsonText(<<Entry(100)>>))

rBad == RawRecord("1001", "7", NotJson)

RawRecords == {rF7, rF81, rL81, rBad}

Lines == {r.lineid : r \in RawRecords}

\* response.json()["results"]: the answers explored.  They cover an empty
\* answer, the same records in another order, a record sent twice, and
\* malformed records and entries beside well-formed ones.
SampleAnswers ==
  { <<>>,
    <<rF7>>,
    <<rF7, rF81>>,
    <<rF81, rF7>>,
    <<rF7, rF7>>,
    <<rBad, rF81>>,
    <<rL81>>,
    <<rF7, rL81>>,
    <<rL81, rF7>>,
    <<rL81, rBad, rF81, rF7>> }

\* pointids = [pid for stop in selected_stops for pid in stop_dict[stop]['IDs']]
pointids(stops) == UNION {stop_dict[s] : s \in stops}

\* where_clause: the API answers with records of the requested points only.
Answers ==
  [stops \in StopSelections |->
     {a \in SampleAnswers : \A i \in DOMAIN a : a[i].pointid \in pointids(stops)}]

\* What one call of requests.get + raise_for_status + json() comes to.
Outcomes ==
  [stops \in StopSelections |->
     {[ok |-> FALSE, results |-> <<>>]} \cup {[ok |-> TRUE, results |-> a] : a \in Answers[stops]}]

\* fetch_data: the result list, or the empty list after any exception.
fetch_data(outcome) == IF outcome.ok THEN outcome.results ELSE <<>>

(* ------------------------------ PollingCache --------------------------- *)

\* json.dumps of one raw record: its fields in the order the API sends them.
json_dumps(r) == <<"pointid", r.pointid, "lineid", r.lineid, "passingtimes", r.passingtimes>>

\* set(map(json.dumps, records))
DumpSet(records) == {json_dumps(records[i]) : i \in DOMAIN records}

\* A comparison of the lists themselves (order and duplicates count).
DiffersAsList(new_data, cached) == new_data # cached

\* set(map(json.dumps, new_data)) != set(map(json.dumps, raw_results))
Differs(new_data, cached) == DumpSet(new_data) # DumpSet(cached)

\* last_fetch_time is None or (now - last_fetch_time).total_seconds() > REFRESH_SECONDS
shouldRefetch(lft, n) == lft = NoTime \/ n - lft > REFRESH_SECONDS

\* The body of the auto block once it has fetched.
absorb(cache, new_data, n) ==
  IF Differs(new_data, cache.raw_results)
  THEN [raw_results |-> new_data, last_fetch_time |-> n]
  ELSE cache

\* A refresh button that went through the change suppression of the auto block.
ManualThroughAbsorb(cache, new_data, n) == absorb(cache, new_data, n)

\* The "Refresh Now" button: both fields are assigned unconditionally
\* (the button's clock reading and now of the same run are one instant).
ManualRefresh(cache, new_data, n) == [raw_results |-> new_data, last_fetch_time |-> n]

(* ---------------------------- ArrivalNormalizer ------------------------ *)

\* json.loads(record["passingtimes"]) inside try/except: continue
Times(record) == IF record.passingtimes.json THEN record.passingtimes.val ELSE <<>>

\* A sign slip in the subtraction.
WaitReversed(arrival, n) == n - arrival

\* wait = (arrival_brussels - now).total_seconds()
Wait(arrival, n) == arrival - n

\* A window that keeps the arrivals of the last 30 s ("due now").
InWindowGrace(wait, max_seconds) == ~(wait > max_seconds \/ wait <= -30)

\* not (wait > max_seconds or wait <= 0)
InWindow(wait, max_seconds) == ~(wait > max_seconds \/ wait <= 0)

\* next(name for name, data in stop_dict.items() if pointid in data['IDs'], pointid)
stop_name(pointid) ==
  IF \E name \in StopNames : pointid \in stop_dict[name]
  THEN CHOOSE name \in StopNames : pointid \in stop_dict[name]
  ELSE pointid

\* The dict appended to grouped[stop_name]: "Expected Arrival" is the
\* arrival instant, "Time Left" the minutes and seconds of wait (for the
\* waits that pass line 146 the branches of lines 154-159 give the same).
Row(record, pt, n) ==
  LET wait == Wait(pt.expectedArrivalTime.t, n)
  IN [Line |-> record.lineid,
      Destination |-> pt.destination,
      Arrival |-> pt.expectedArrivalTime.t,
      TimeLeft |-> <<wait \div 60, wait % 60>>,
      SecondsLeft |-> wait]

\* Does the inner try block reach grouped.setdefault(...).append for pt?
Kept(pt, n, max_seconds) ==
  /\ pt.expectedArrivalTime.iso
  /\ InWindow(Wait(pt.expectedArrivalTime.t, n), max_seconds)

\* One try block around the whole inner loop: the first bad entry drops the
\* entries after it.
RECURSIVE EntryRowsAbort(_, _, _, _)
EntryRowsAbort(record, times, n, max_seconds) ==
  IF times = <<>> THEN <<>>
  ELSE IF ~Head(times).expectedArrivalTime.iso THEN <<>>
  ELSE (IF Kept(Head(times), n, max_seconds) THEN <<Row(record, Head(times), n)>> ELSE <<>>)
       \o EntryRowsAbort(record, Tail(times), n, max_seconds)

\* The inner loop "for pt in times": one try block per entry.
RECURSIVE EntryRows(_, _, _, _)
EntryRows(record, times, n, max_seconds) ==
  IF times = <<>> THEN <<>>
  ELSE (IF Kept(Head(times), n, max_seconds) THEN <<Row(record, Head(times), n)>> ELSE <<>>)
       \o EntryRows(record, Tail(times), n, max_seconds)

\* The rows the outer loop appends to grouped[label], in order.
RECURSIVE RowsFor(_, _, _, _)
RowsFor(label, records, n, max_seconds) ==
  IF records = <<>> THEN <<>>
  ELSE (IF stop_name(Head(records).pointid) = label
        THEN EntryRows(Head(records), Times(Head(records)), n, max_seconds)
        ELSE <<>>)
       \o RowsFor(label, Tail(records), n, max_seconds)

\* Keys grouped can get: stop names, or the raw point identifier as fallback.
Labels == StopNames \cup PointIds

\* grouped after the processing loop (a missing key reads as the empty list).
Grouped(records, n, max_seconds) ==
  [label \in Labels |-> RowsFor(label, records, n, max_seconds)]

(* -------------------------------- Presenter ---------------------------- *)

\* all_lines = sorted(set(r["Line"] for arrivals in grouped.values() for r in arrivals))
AllLines(g) == UNION {{g[label][i].Line : i \in DOMAIN g[label]} : label \in DOMAIN g}

\* A filter that keeps the stored selection as it is.
KeepSelection(selected, lines) == selected

\* filtered_selected = [line for line in selected_lines if line in all_lines]
Prune(selected, lines) == {line \in selected : line \in lines}

\* filtered = [a for a in arrivals if a["Line"] in st.session_state.selected_lines]
FilterLines(arrivals, selected) == SelectSeq(arrivals, LAMBDA a : a.Line \in selected)

\* Insert one row before the first row with more seconds left.
RECURSIVE Insert(_, _)
Insert(row, sorted) ==
  IF sorted = <<>> THEN <<row>>
  ELSE IF row.SecondsLeft < Head(sorted).SecondsLeft THEN <<row>> \o sorted
  ELSE <<Head(sorted)>> \o Insert(row, Tail(sorted))

\* The rows in the order the processing loop appended them.
Unsorted(rows) == rows

\* pd.DataFrame(filtered).sort_values("Seconds Left")
RECURSIVE SortBySecondsLeft(_)
SortBySecondsLeft(rows) ==
  IF rows = <<>> THEN <<>>
  ELSE Insert(rows[Len(rows)], SortBySecondsLeft(SubSeq(rows, 1, Len(rows) - 1)))

\* A guard that lets the run go on without stops.
NeverHalts(stops) == FALSE

\* if not selected_stops: st.warning(...); st.stop()
Halts(stops) == stops = {}

(* --------------------------------- state ------------------------------- *)

VARIABLES
  now,                 \* wall clock read by the latest run
  ticks,               \* script runs so far
  event,               \* what triggered the latest run
  selected_stops,      \* value of the "Choose stops" multiselect
  time_limit_minutes,  \* value of the slider
  raw_results,         \* st.session_state.raw_results
  last_fetch_time,     \* st.session_state.last_fetch_time
  has_selected_lines,  \* "selected_lines" in st.session_state
  selected_lines,      \* st.session_state.selected_lines
  last_stops,          \* st.session_state.last_stops ({} while unset)
  lines_default,       \* default= of the "Filter by line" widget of the latest run
  halted,              \* the latest run ended at st.stop()
  fetched,             \* which block of the latest run called fetch_data
  fetch_ok,            \* that call raised no exception
  new_data,            \* what that call returned
  same_content,        \* that call returned the content the cache held
  all_lines,           \* all_lines of the latest run
  shown                \* the table drawn under each selected stop

session == <<raw_results, last_fetch_time, has_selected_lines, selected_lines, last_stops>>

vars == <<now, ticks, event, selected_stops, time_limit_minutes, raw_results,
          last_fetch_time, has_selected_lines, selected_lines, last_stops,
          lines_default, halted, fetched, fetch_ok, new_data, same_content,
          all_lines, shown>>

NoTables == [s \in StopNames |-> <<>>]

\* The page before its first run: the widgets hold their defaults, the
\* session state is what lines 105-107 set it to.
Init ==
  /\ now = 0
  /\ ticks = 0
  /\ event = "none"
  /\ selected_stops = {"FLAGEY", "LEVURE"}
  /\ time_limit_minutes = 5
  /\ raw_results = <<>>
  /\ last_fetch_time = NoTime
  /\ has_selected_lines = FALSE
  /\ selected_lines = {}
  /\ last_stops = {}
  /\ lines_default = {}
  /\ halted = FALSE
  /\ fetched = "none"
  /\ fetch_ok = TRUE
  /\ new_data = <<>>
  /\ same_content = FALSE
  /\ all_lines = {}
  /\ shown = NoTables

(* ------------------------------ one script run ------------------------- *)

NoCall == [ok |-> TRUE, results |-> <<>>]

\* The answers the run can get: none when it calls fetch_data in no block.
Calls(ev, stops, n) ==
  IF ~Halts(stops) /\ (ev = "refresh" \/ shouldRefetch(last_fetch_time, n))
  THEN Outcomes[stops]
  ELSE {NoCall}

\* Lines 85-87: the run ends before the session state is touched.
HaltedRun ==
  /\ halted' = TRUE
  /\ fetched' = "none"
  /\ fetch_ok' = TRUE
  /\ new_data' = <<>>
  /\ same_content' = FALSE
  /\ all_lines' = {}
  /\ lines_default' = {}
  /\ shown' = NoTables
  /\ UNCHANGED session

\* Lines 104-123: the session state after the two refresh blocks.
Refreshed(ev, n, outcome) ==
  LET cache0 == [raw_results |-> raw_results, last_fetch_time |-> last_fetch_time]
      cache1 == IF ev = "refresh"
                THEN ManualRefresh(cache0, fetch_data(outcome), n)
                ELSE cache0
  IN IF shouldRefetch(cache1.last_fetch_time, n)
     THEN absorb(cache1, fetch_data(outcome), n)
     ELSE cache1

\* Lines 171-192: the line selection after the filter widgets.
Chosen(ev, lines, pick) ==
  LET pruned == IF has_selected_lines THEN Prune(selected_lines, lines) ELSE lines
      default == IF ev = "select_all" THEN lines ELSE pruned
      \* The multiselect has no key: it keeps the user's value only while its
      \* options and its default are those of the run before.
      same_widget == ~halted /\ lines = all_lines /\ default = lines_default
  IN [default |-> default,
      selected |-> IF ev = "lines" /\ same_widget THEN pick ELSE default]

\* Lines 89-246 at the instant n.
FullRun(ev, n, stops, limit, pick, outcome) ==
  \E cache \in {Refreshed(ev, n, outcome)} :
  \E g \in {Grouped(cache.raw_results, n, limit * 60)} :
  \E lines \in {AllLines(g)} :
  \E chosen \in {Chosen(ev, lines, pick)} :
     /\ halted' = FALSE
     /\ fetched' = IF ev = "refresh" THEN "manual"
                   ELSE IF shouldRefetch(last_fetch_time, n) THEN "auto" ELSE "none"
     /\ fetch_ok' = outcome.ok
     /\ new_data' = fetch_data(outcome)
     /\ same_content' = /\ ev = "refresh" \/ shouldRefetch(last_fetch_time, n)
                        /\ ~Differs(fetch_data(outcome), raw_results)
     /\ raw_results' = cache.raw_results
     /\ last_fetch_time' = cache.last_fetch_time
     /\ all_lines' = lines
     /\ lines_default' = chosen.default
     /\ has_selected_lines' = TRUE
     /\ selected_lines' = chosen.selected
     /\ shown' = [s \in StopNames |->
                    IF s \in stops
                    THEN SortBySecondsLeft(FilterLines(g[s], chosen.selected))
                    ELSE <<>>]
     /\ last_stops' = stops

Run(ev, dt, stops, limit, pick) ==
  /\ ticks < MaxTicks
  /\ ticks' = ticks + 1
  /\ now' = now + dt
  /\ event' = ev
  /\ selected_stops' = stops
  /\ time_limit_minutes' = limit
  /\ IF Halts(stops)
     THEN HaltedRun
     ELSE \E outcome \in Calls(ev, stops, now + dt) :
            FullRun(ev, now + dt, stops, limit, pick, outcome)

(* -------------------------------- actions ------------------------------ *)

\* The page load, or a rerun by st_autorefresh.
TimerTick ==
  /\ ticks >= 0
  /\ \E dt \in TickSteps : Run("timer", dt, selected_stops, time_limit_minutes, {})

\* The user changes the "Choose stops" multiselect.
ChooseStops ==
  /\ ticks > 0
  /\ \E dt \in TickSteps, stops \in StopSelections \ {selected_stops} :
       Run("stops", dt, stops, time_limit_minutes, {})

\* The user moves the slider.
MoveSlider ==
  /\ ticks > 0
  /\ \E dt \in TickSteps, limit \in TimeLimits \ {time_limit_minutes} :
       Run("slider", dt, selected_stops, limit, {})

\* The user presses "Refresh Now" (drawn only by a run that did not halt).
RefreshNow ==
  /\ ticks > 0 /\ ~halted
  /\ \E dt \in TickSteps : Run("refresh", dt, selected_stops, time_limit_minutes, {})

\* The user presses "Select All Lines".
SelectAllLines ==
  /\ ticks > 0 /\ ~halted
  /\ \E dt \in TickSteps : Run("select_all", dt, selected_stops, time_limit_minutes, {})

\* The user changes the "Filter by line" multiselect.
FilterByLine ==
  /\ ticks > 0 /\ ~halted
  /\ \E dt \in TickSteps, pick \in (SUBSET all_lines) \ {selected_lines} :
       Run("lines", dt, selected_stops, time_limit_minutes, pick)

Next ==
  \/ TimerTick
  \/ ChooseStops
  \/ MoveSlider
  \/ RefreshNow
  \/ SelectAllLines
  \/ FilterByLine

Spec == Init /\ [][Next]_vars

\* Runs with no manual refresh.
NextAuto ==
  \/ TimerTick
  \/ ChooseStops
  \/ MoveSlider
  \/ SelectAllLines
  \/ FilterByLine

SpecAuto == Init /\ [][NextAuto]_vars

(* ------------------------- helpers of the properties ------------------- *)

\* How often record r occurs in the list.
Count(records, r) == Cardinality({i \in DOMAIN records : records[i] = r})

SameMultiset(a, b) == \A r \in RawRecords : Count(a, r) = Count(b, r)

SameRecordSet(a, b) ==
  {a[i] : i \in DOMAIN a} = {b[i] : i \in DOMAIN b}

\* The well-formed passing-time entries of the cached records, as
\* <<record index, entry index>>.
CachedArrivals ==
  UNION {{<<i, j>> : j \in {k \in DOMAIN raw_results[i].passingtimes.val :
                              raw_results[i].passingtimes.val[k].expectedArrivalTime.iso}}
         : i \in {k \in DOMAIN raw_results : raw_results[k].passingtimes.json}}

ArrivalInstant(ij) == raw_results[ij[1]].passingtimes.val[ij[2]].expectedArrivalTime.t

ArrivalLine(ij) == raw_results[ij[1]].lineid

ArrivalStop(ij) == stop_name(raw_results[ij[1]].pointid)

SecondsLeft(ij) == ArrivalInstant(ij) - now

Future(ij) == 0 < SecondsLeft(ij) /\ SecondsLeft(ij) <= time_limit_minutes * 60

\* A row for this arrival is in the table of its stop.
Displayed(ij) ==
  /\ ArrivalStop(ij) \in StopNames
  /\ \E k \in DOMAIN shown[ArrivalStop(ij)] :
       /\ shown[ArrivalStop(ij)][k].Line = ArrivalLine(ij)
       /\ shown[ArrivalStop(ij)][k].Arrival = ArrivalInstant(ij)

\* The latest run went past the empty-selection guard.
Rendered == ticks > 0 /\ ~halted

(* -------------------------------- C1 ----------------------------------- *)

\* C1 as stated: a manual refresh that fetches the cached content again
\* leaves the cached list and last_fetch_time as they were (stated for
\* fetches that succeed with records).
C1_ManualRefreshSuppressed ==
  [][(fetched' = "manual" /\ fetch_ok' /\ new_data' # <<>>
        /\ SameRecordSet(new_data', raw_results))
       => (raw_results' = raw_results /\ last_fetch_time' = last_fetch_time)]_vars

\* C1 (amended): a manual refresh is not change-suppressed: it always puts
\* the fetched list in the cache and sets last_fetch_time to the instant of
\* the run, also when the fetched content is the cached content.
C1_ManualRefreshReplaces ==
  [][fetched' = "manual" => (raw_results' = new_data' /\ last_fetch_time' = now')]_vars

\* A manual refresh that fetched the content the cache already held: the
\* cache holds the fetched list and carries the instant of this run.
C1_Witness ==
  /\ fetched = "manual" /\ fetch_ok
  /\ same_content
  /\ raw_results # <<>>
  /\ raw_results = new_data
  /\ last_fetch_time = now

(* -------------------------------- C2 ----------------------------------- *)

\* C2: without manual refreshes, a run that called the API is not followed
\* within REFRESH_SECONDS by another run that calls it (stated for calls
\* that succeed with records).
C2_ThirtySecondCadence ==
  [][(/\ fetched = "auto" /\ fetch_ok /\ new_data # <<>>
      /\ fetched' = "auto" /\ fetch_ok' /\ new_data' # <<>>)
       => now' - now > REFRESH_SECONDS]_vars

(* -------------------------------- C3 ----------------------------------- *)

\* C3: a fetch that fails neither overwrites the cached records nor sets
\* or advances last_fetch_time (stated for the automatic fetch).
C3_FailedFetchKeepsCache ==
  [][(fetched' = "auto" /\ ~fetch_ok')
       => (raw_results' = raw_results /\ last_fetch_time' = last_fetch_time)]_vars

(* -------------------------------- C4 ----------------------------------- *)

\* C4: an automatic fetch that returns the cached records again, in any
\* order, leaves the cached list and last_fetch_time unchanged; one that
\* returns other records (the content compared as a set of records)
\* replaces the cache by the new list and sets last_fetch_time to the now
\* of the run.
C4_AbsorbOrderInsensitive ==
  [][fetched' = "auto" =>
       /\ SameMultiset(new_data', raw_results)
            => (raw_results' = raw_results /\ last_fetch_time' = last_fetch_time)
       /\ ~SameRecordSet(new_data', raw_results)
            => (raw_results' = new_data' /\ last_fetch_time' = now')]_vars

\* An automatic fetch answered with the cached records in another order:
\* the cache kept its own order and its older timestamp.
C4_Witness ==
  /\ fetched = "auto"
  /\ new_data # raw_results
  /\ SameMultiset(new_data, raw_results)
  /\ Len(raw_results) >= 2
  /\ last_fetch_time < now

(* -------------------------------- C5 ----------------------------------- *)

\* C5: an arrival of the cached records is in the table of its stop iff
\* its stop is selected, 0 < secondsLeft <= maxMinutes*60 and its line is
\* selected; every row comes from such an arrival; no row has
\* secondsLeft <= 0.
C5_FilterCorrectness ==
  /\ \A ij \in CachedArrivals :
       Displayed(ij) <=> /\ ArrivalStop(ij) \in selected_stops
                         /\ Future(ij)
                         /\ ArrivalLine(ij) \in selected_lines
  /\ \A s \in StopNames : \A k \in DOMAIN shown[s] :
       /\ shown[s][k].SecondsLeft > 0
       /\ \E ij \in CachedArrivals :
            /\ ArrivalStop(ij) = s
            /\ ArrivalLine(ij) = shown[s][k].Line
            /\ ArrivalInstant(ij) = shown[s][k].Arrival

\* A table with a row, while the cache also holds an arrival that is due
\* now or up to 30 s past, one of an unselected stop and one of an
\* unselected line.
C5_Witness ==
  /\ \E ij \in CachedArrivals : Displayed(ij)
  /\ \E ij \in CachedArrivals : SecondsLeft(ij) <= 0 /\ SecondsLeft(ij) >= -30
  /\ \E ij \in CachedArrivals : Future(ij) /\ ArrivalStop(ij) \notin selected_stops
  /\ \E ij \in CachedArrivals :
       Future(ij) /\ ArrivalStop(ij) \in selected_stops /\ ArrivalLine(ij) \notin selected_lines

(* -------------------------------- C6 ----------------------------------- *)

\* C6: a record whose passingtimes is not JSON and an entry whose timestamp
\* does not parse contribute no row and stop nothing: the table of every
\* selected stop has exactly one row per well-formed in-window arrival of a
\* selected line among the cached records of that stop.
C6_MalformedSkipped ==
  Rendered =>
    \A s \in selected_stops :
      Len(shown[s]) =
        Cardinality({ij \in CachedArrivals :
                       /\ ArrivalStop(ij) = s
                       /\ Future(ij)
                       /\ ArrivalLine(ij) \in selected_lines})

\* The cache holds a record that is not JSON and an entry that does not
\* parse, and the entry after the bad one is on the page.
C6_Witness ==
  /\ Rendered
  /\ \E i \in DOMAIN raw_results : ~raw_results[i].passingtimes.json
  /\ \E i \in DOMAIN raw_results :
       /\ raw_results[i].passingtimes.json
       /\ \E j \in DOMAIN raw_results[i].passingtimes.val :
            /\ ~raw_results[i].passingtimes.val[j].expectedArrivalTime.iso
            /\ <<i, j + 1>> \in CachedArrivals
            /\ Displayed(<<i, j + 1>>)

(* -------------------------------- C7 ----------------------------------- *)

\* C7: every row carries arrivalInstant - now for the now of its run, and
\* over two runs with the same cached payload the seconds left of an
\* arrival shown in both drop by the time between the runs.
C7_SecondsLeftFresh ==
  /\ [](\A s \in StopNames : \A k \in DOMAIN shown[s] :
          shown[s][k].SecondsLeft = shown[s][k].Arrival - now)
  /\ [][raw_results' = raw_results =>
          \A s \in StopNames : \A k \in DOMAIN shown[s] : \A m \in DOMAIN shown'[s] :
            (shown'[s][m].Line = shown[s][k].Line /\ shown'[s][m].Arrival = shown[s][k].Arrival)
              => shown'[s][m].SecondsLeft = shown[s][k].SecondsLeft - (now' - now)]_vars

\* A run whose fetch was suppressed as identical, long after the cached
\* fetch, with rows on the page.
C7_Witness ==
  /\ fetched = "auto" /\ fetch_ok
  /\ last_fetch_time # NoTime
  /\ now - last_fetch_time > REFRESH_SECONDS
  /\ \E s \in StopNames : shown[s] # <<>>

(* -------------------------------- C8 ----------------------------------- *)

\* C8: a run with no stop selected calls the API in no block, draws no
\* table and leaves the session state alone; the next run with a stop
\* selected goes through fetching (when the cache is stale), the line
\* filter and the tables again.
C8_EmptySelectionHalts ==
  /\ [][selected_stops' = {} =>
          /\ fetched' = "none"
          /\ shown' = NoTables
          /\ UNCHANGED <<raw_results, last_fetch_time, has_selected_lines,
                         selected_lines, last_stops>>]_vars
  /\ [][(selected_stops = {} /\ selected_stops' # {}) =>
          /\ ~halted'
          /\ shouldRefetch(last_fetch_time, now') => fetched' = "auto"
          /\ has_selected_lines'
          /\ selected_lines' \subseteq all_lines'
          /\ last_stops' = selected_stops']_vars

\* A halted run that had a cache, a line selection and a map selection to
\* keep.
C8_Witness ==
  /\ halted
  /\ selected_stops = {}
  /\ raw_results # <<>>
  /\ selected_lines # {}
  /\ last_stops # {}

(* -------------------------------- C9 ----------------------------------- *)

\* C9: the rows of every table are in non-decreasing order of seconds left.
C9_SortedBySecondsLeft ==
  \A s \in StopNames : \A k \in DOMAIN shown[s] :
    k < Len(shown[s]) => shown[s][k].SecondsLeft <= shown[s][k + 1].SecondsLeft

\* A table of several rows that the processing loop had produced in
\* another order.
C9_Witness ==
  \E s \in StopNames :
    /\ Len(shown[s]) >= 2
    /\ shown[s] # FilterLines(RowsFor(s, raw_results, now, time_limit_minutes * 60),
                              selected_lines)

(* -------------------------------- C10 ---------------------------------- *)

\* The lines with an in-window arrival among the cached records.
InWindowLines == {ArrivalLine(ij) : ij \in {a \in CachedArrivals : Future(a)}}

\* C10: after every run that reaches the line filter the stored selection
\* is a subset of the lines with an in-window arrival, and a run adds a
\* line to the stored selection only when the user changed the line filter
\* or pressed Select All Lines.
C10_SelectionPruned ==
  /\ [](Rendered => selected_lines \subseteq InWindowLines)
  /\ [][(has_selected_lines /\ ~(selected_lines' \subseteq selected_lines))
          => event' \in {"lines", "select_all"}]_vars

\* A run the user did not start from the line controls, with a line in the
\* window that the stored selection has lost: its arrivals are not shown.
C10_Witness ==
  /\ Rendered
  /\ ticks >= 3
  /\ event \in {"timer", "slider"}
  /\ selected_lines = {}
  /\ InWindowLines # {}
  /\ \A s \in StopNames : shown[s] = <<>>

====
